---- MODULE Spec2Model ----
(***************************************************************************)
(* A model of src/router.rs: the Router component of yew-nested-router.    *)
(*                                                                         *)
(* The Router owns a browser history and a listener on it, keeps the       *)
(* target parsed from the current location, and publishes a ScopeContext   *)
(* and a RouterContext to its descendants.  The component runtime is       *)
(* single threaded: messages sent through the component's link are queued  *)
(* and handed to update() one at a time, in the order they were sent.      *)
(*                                                                         *)
(* Strings are sequences of one-character strings, so that format!, join   *)
(* and split are computed rather than assumed.  Option<T> is a Target or   *)
(* None.                                                                   *)
(***************************************************************************)
EXTENDS Naturals, Sequences, FiniteSets

VARIABLES
    props,          \* RouterProps: [default : Option<T>] (children carry no state)
    history,        \* the browser history: [location, index of the current entry]
    listener,       \* TRUE while the HistoryListener handle is held
    alive,          \* TRUE from create until the component is dropped
    target,         \* Router.target : Option<T>
    scope,          \* Router.scope : Rc<ScopeContext<T>>
    router,         \* Router.router : RouterContext<T>
    msgs,           \* messages sent through the link, not yet handed to update
    provided,       \* what the two ContextProviders hold since the last view()
    handled,        \* the lifecycle call made last, with its message
    should_render,  \* the value that call returned
    default_used    \* props.default when the target was last computed from a location

vars == <<props, history, listener, alive, target, scope, router, msgs,
          provided, handled, should_render, default_used>>

-----------------------------------------------------------------------------
(* Bounds of the model. *)

MaxQueue == 2       \* messages waiting in the component's queue
MaxHistory == 3     \* index of the current entry of the browser history
NumCallbackIds == 2 \* distinct addresses a freshly allocated callback can get

-----------------------------------------------------------------------------
(* Strings. *)

None == "None"

\* [T]::join(sep), router.rs line 124
RECURSIVE Join(_, _)
Join(segs, sep) ==
    IF segs = <<>> THEN <<>>
    ELSE IF Len(segs) = 1 THEN Head(segs)
    ELSE Head(segs) \o sep \o Join(Tail(segs), sep)

\* str::split('/'), router.rs line 153: one more segment than there are slashes
RECURSIVE Split(_)
Split(s) ==
    IF s = <<>> THEN << <<>> >>
    ELSE IF Head(s) = "/" THEN << <<>> >> \o Split(Tail(s))
    ELSE LET r == Split(Tail(s))
         IN  << <<Head(s)>> \o Head(r) >> \o Tail(r)

\* Iterator::skip(n), router.rs line 153
Skip(seq, n) == IF Len(seq) <= n THEN <<>> ELSE SubSeq(seq, n + 1, Len(seq))

-----------------------------------------------------------------------------
(* The Target Contract: an application's Target type.  The Router is       *)
(* generic over it; this is one application, chosen so that it has a       *)
(* target with an empty path, targets that render and parse back, a        *)
(* target whose segment holds a slash, and a target the parser rejects.    *)

Targets == {"Root", "A", "AB", "Slash", "B"}

OptionT == Targets \cup {None}

\* Target::render_path
render_path(t) ==
    CASE t = "Root"  -> <<>>
      [] t = "A"     -> << <<"a">> >>
      [] t = "AB"    -> << <<"a">>, <<"b">> >>
      [] t = "Slash" -> << <<"a", "/", "b">> >>
      [] t = "B"     -> << <<"b">> >>

\* Target::parse_path
parse_path(segs) ==
    CASE segs = <<>>                     -> "Root"
      [] segs = << <<>> >>               -> "Root"
      [] segs = << <<"a">> >>            -> "A"
      [] segs = << <<"a">>, <<"b">> >>   -> "AB"
      [] OTHER                           -> None

\* mutant of or_else: the fallback taken whenever there is one
or_else_FallbackFirst(opt, other) == IF other # None THEN other ELSE opt

\* mutant of or_else: the fallback forgotten
or_else_NoFallback(opt, other) == opt

\* Option::or_else
or_else(opt, other) == IF opt # None THEN opt ELSE other

-----------------------------------------------------------------------------
(* Router's helpers. *)

\* the segments of s that are not empty
RECURSIVE NonEmpty(_)
NonEmpty(segs) ==
    IF segs = <<>> THEN <<>>
    ELSE IF Head(segs) = <<>> THEN NonEmpty(Tail(segs))
    ELSE <<Head(segs)>> \o NonEmpty(Tail(segs))

\* mutant of path: empty segments dropped wherever they are
path_Normalised(location) == NonEmpty(Split(location))

\* Router::parse_location: let path = location.path().split('/').skip(1)
path(location) == Skip(Split(location), 1)

\* Router::parse_location
parse_location(location) == parse_path(path(location))

\* mutant of Route: a slash after every segment
Route_TrailingSlash(t) ==
    <<"/">> \o Join(render_path(t), <<"/">>)
            \o (IF render_path(t) = <<>> THEN <<>> ELSE <<"/">>)

\* mutant of Route: the leading slash left to the first segment
Route_NoLeadingSlash(t) == Join(render_path(t), <<"/">>)

\* format!("/{}", target.render_path().join("/"))
Route(t) == <<"/">> \o Join(render_path(t), <<"/">>)

\* Msg
RouteChanged(location) == [type |-> "RouteChanged", location |-> location, target |-> None]
ChangeTarget(t) == [type |-> "ChangeTarget", location |-> <<>>, target |-> t]

\* ctx.link().callback(..) allocates a callback.  Two callbacks are equal
\* when they are the same allocation, and an allocation made while the
\* callbacks in `live` are still held is none of them.
FreshCallbacks(live) == (1..NumCallbackIds) \ live

\* Router::build_context
build_context(t, cb) ==
    LET sc == [upwards |-> cb]
    IN  [scope |-> sc, router |-> [scope |-> sc, active_target |-> t]]

\* Router::view: the contexts handed to the two ContextProviders
view(sc, rt) == [scope |-> sc, router |-> rt]

\* History::location
Location(h) == h.location

\* History::push: a new entry after the current one, which becomes current
Push(h, route) == [location |-> route, index |-> h.index + 1]

\* mutant of Notify: the message put before the ones already waiting
Notify_Front(queue, h) ==
    IF listener THEN <<RouteChanged(Location(h))>> \o queue ELSE queue

\* mutant of Notify: the location read before the change, not after it
Notify_Stale(queue, h) ==
    IF listener THEN Append(queue, RouteChanged(Location(history))) ELSE queue

\* the listener registered in create: cb.emit(history.location())
Notify(queue, h) == IF listener THEN Append(queue, RouteChanged(Location(h))) ELSE queue

-----------------------------------------------------------------------------
(* RouterContext. *)

\* mutant of is_same: no active target matches every target
is_same_NoneMatches(ctx, t) ==
    IF ctx.active_target # None THEN ctx.active_target = t ELSE TRUE

\* RouterContext::is_same
is_same(ctx, t) ==
    IF ctx.active_target # None THEN ctx.active_target = t ELSE FALSE

\* t's path is the beginning of u's path
IsPathPrefix(t, u) ==
    /\ Len(render_path(t)) <= Len(render_path(u))
    /\ SubSeq(render_path(u), 1, Len(render_path(t))) = render_path(t)

\* mutant of is_active: a target is active when a target below it is
is_active_Hierarchical(ctx, t) ==
    IF ctx.active_target # None THEN IsPathPrefix(t, ctx.active_target) ELSE FALSE

\* RouterContext::is_active
is_active(ctx, t) == is_same(ctx, t)

\* RouterContext::active
active(ctx) == ctx.active_target

-----------------------------------------------------------------------------
(* The locations the browser can be at besides the routes the Router       *)
(* pushes: a trailing slash, and a path no target has.                     *)

Locations == {Route(t) : t \in Targets} \cup {<<"/", "a", "/">>}

Defaults == {None, "A", "Slash"}

\* Router::create, with the properties and the location the page starts at
Init ==
    \E d \in Defaults, l \in Locations, cb \in FreshCallbacks({}) :
        LET t == or_else(parse_location(l), d)
            c == build_context(t, cb)
        IN  /\ props = [default |-> d]
            /\ history = [location |-> l, index |-> 1]
            /\ listener = TRUE
            /\ alive = TRUE
            /\ target = t
            /\ scope = c.scope
            /\ router = c.router
            /\ msgs = <<>>
            /\ provided = view(c.scope, c.router)
            /\ handled = [call |-> "create", msg |-> None]
            /\ should_render = TRUE
            /\ default_used = d

\* Router::sync_context: reads self.target as the caller left it
sync_context ==
    \E cb \in FreshCallbacks({scope.upwards}) :
        LET c == build_context(target', cb)
        IN  /\ scope' = c.scope
            /\ router' = c.router

\* the runtime calls view() after a lifecycle call that returned true, and
\* the ContextProviders then hold the contexts view() handed them
Rendered ==
    provided' = IF should_render' THEN view(scope', router') ELSE provided

\* mutant of UpdateRouteChanged: the comparison inverted
UpdateRouteChanged_Inverted(msg) ==
    LET t == or_else(parse_location(msg.location), props.default)
    IN  /\ msg.type = "RouteChanged"
        /\ default_used' = props.default
        /\ IF t = target
           THEN /\ target' = t
                /\ sync_context
                /\ should_render' = TRUE
           ELSE /\ should_render' = FALSE
                /\ UNCHANGED <<target, scope, router>>
        /\ msgs' = Tail(msgs)
        /\ UNCHANGED <<history>>

\* mutant of UpdateRouteChanged: the contexts not rebuilt
UpdateRouteChanged_NoSync(msg) ==
    LET t == or_else(parse_location(msg.location), props.default)
    IN  /\ msg.type = "RouteChanged"
        /\ default_used' = props.default
        /\ IF t # target
           THEN /\ target' = t
                /\ should_render' = TRUE
                /\ UNCHANGED <<scope, router>>
           ELSE /\ should_render' = FALSE
                /\ UNCHANGED <<target, scope, router>>
        /\ msgs' = Tail(msgs)
        /\ UNCHANGED <<history>>

\* mutant of UpdateRouteChanged: no comparison with the stored target
UpdateRouteChanged_Ungated(msg) ==
    LET t == or_else(parse_location(msg.location), props.default)
    IN  /\ msg.type = "RouteChanged"
        /\ default_used' = props.default
        /\ target' = t
        /\ sync_context
        /\ should_render' = TRUE
        /\ msgs' = Tail(msgs)
        /\ UNCHANGED <<history>>

\* Router::update, Msg::RouteChanged
UpdateRouteChanged(msg) ==
    LET t == or_else(parse_location(msg.location), props.default)
    IN  /\ msg.type = "RouteChanged"
        /\ default_used' = props.default
        /\ IF t # target
           THEN /\ target' = t
                /\ sync_context
                /\ should_render' = TRUE
           ELSE /\ should_render' = FALSE
                /\ UNCHANGED <<target, scope, router>>
        /\ msgs' = Tail(msgs)
        /\ UNCHANGED <<history>>

\* mutant of UpdateChangeTarget: nothing pushed for the active target
UpdateChangeTarget_Dedup(msg) ==
    LET route == Route(msg.target)
    IN  /\ msg.type = "ChangeTarget"
        /\ history.index < MaxHistory
        /\ IF msg.target = target
           THEN /\ history' = history
                /\ msgs' = Tail(msgs)
           ELSE /\ history' = Push(history, route)
                /\ msgs' = Notify(Tail(msgs), history')
        /\ should_render' = FALSE
        /\ UNCHANGED <<target, scope, router, default_used>>

\* mutant of UpdateChangeTarget: the requested target stored at once
UpdateChangeTarget_Eager(msg) ==
    LET route == Route(msg.target)
    IN  /\ msg.type = "ChangeTarget"
        /\ history.index < MaxHistory
        /\ history' = Push(history, route)
        /\ msgs' = Notify(Tail(msgs), history')
        /\ target' = msg.target
        /\ sync_context
        /\ should_render' = TRUE
        /\ UNCHANGED <<default_used>>

\* Router::update, Msg::ChangeTarget
UpdateChangeTarget(msg) ==
    LET route == Route(msg.target)
    IN  /\ msg.type = "ChangeTarget"
        /\ history.index < MaxHistory
        /\ history' = Push(history, route)
        /\ msgs' = Notify(Tail(msgs), history')
        /\ should_render' = FALSE
        /\ UNCHANGED <<target, scope, router, default_used>>

\* Router::update: the runtime hands the oldest queued message to the component
Update ==
    /\ alive
    /\ msgs # <<>>
    /\ handled' = [call |-> "update", msg |-> Head(msgs)]
    /\ \/ UpdateRouteChanged(Head(msgs))
       \/ UpdateChangeTarget(Head(msgs))
    /\ Rendered
    /\ UNCHANGED <<props, listener, alive>>

\* mutant of Changed: the target computed again with the new default
Changed_Reparse ==
    \E d \in Defaults :
        /\ alive
        /\ props' = [default |-> d]
        /\ target' = or_else(parse_location(Location(history)), d)
        /\ sync_context
        /\ should_render' = TRUE
        /\ Rendered
        /\ handled' = [call |-> "changed", msg |-> None]
        /\ UNCHANGED <<history, listener, alive, msgs, default_used>>

\* Router::changed: the parent re-rendered the Router with new properties
Changed ==
    \E d \in Defaults :
        /\ alive
        /\ props' = [default |-> d]
        /\ UNCHANGED target
        /\ sync_context
        /\ should_render' = TRUE
        /\ Rendered
        /\ handled' = [call |-> "changed", msg |-> None]
        /\ UNCHANGED <<history, listener, alive, msgs, default_used>>

\* RouterContext::go: a descendant asks for a target
Go ==
    \E t \in Targets :
        /\ alive
        /\ Len(msgs) < MaxQueue
        /\ msgs' = Append(msgs, ChangeTarget(t))
        /\ UNCHANGED <<props, history, listener, alive, target, scope, router,
                       provided, handled, should_render, default_used>>

\* the history changes without the Router: another push
HistoryPush ==
    \E l \in Locations :
        /\ history.index < MaxHistory
        /\ Len(msgs) < MaxQueue
        /\ history' = Push(history, l)
        /\ msgs' = Notify(msgs, history')
        /\ UNCHANGED <<props, listener, alive, target, scope, router,
                       provided, handled, should_render, default_used>>

\* the history changes without the Router: the user goes back, to whatever
\* location the entry before the current one holds
HistoryBack ==
    \E l \in Locations :
    /\ history.index > 1
    /\ Len(msgs) < MaxQueue
    /\ history' = [location |-> l, index |-> history.index - 1]
    /\ msgs' = Notify(msgs, history')
    /\ UNCHANGED <<props, listener, alive, target, scope, router,
                   provided, handled, should_render, default_used>>

\* mutant of Destroy: the listener handle outlives the component
Destroy_KeepsListener ==
    /\ alive
    /\ alive' = FALSE
    /\ listener' = listener
    /\ msgs' = <<>>
    /\ handled' = [call |-> "destroy", msg |-> None]
    /\ UNCHANGED <<props, history, target, scope, router, provided,
                   should_render, default_used>>

\* the component is dropped: the listener handle goes with it, and the
\* messages still queued find no component
Destroy ==
    /\ alive
    /\ alive' = FALSE
    /\ listener' = FALSE
    /\ msgs' = <<>>
    /\ handled' = [call |-> "destroy", msg |-> None]
    /\ UNCHANGED <<props, history, target, scope, router, provided,
                   should_render, default_used>>

Next ==
    \/ Update
    \/ Changed
    \/ Go
    \/ HistoryPush
    \/ HistoryBack
    \/ Destroy

Spec == Init /\ [][Next]_vars

-----------------------------------------------------------------------------
(* Properties. *)

\* the step hands message m to update()
Handles(m) == Update /\ Head(msgs) = m

NoPendingRouteChanged == \A i \in 1..Len(msgs) : msgs[i].type # "RouteChanged"

\* the current location is one the Target Contract does not match
Unmatched == parse_location(Location(history)) = None

\* every RouterContext build_context can make
RouterContexts ==
    {build_context(a, cb).router : a \in OptionT, cb \in 1..NumCallbackIds}

\* C1: for a target X whose route parses back to X, handling ChangeTarget(X)
\* pushes X's route and queues RouteChanged with that location, and handling
\* that RouteChanged leaves active() = Some(X), in the Router's context and in
\* the one its descendants hold, whatever target and default were there.
C1_NavigateThenRouteChanged ==
    [][\A X \in Targets :
          /\ Handles(ChangeTarget(X)) =>
                /\ Location(history') = Route(X)
                /\ msgs' # <<>>
                /\ msgs'[Len(msgs')] = RouteChanged(Route(X))
          /\ (Handles(RouteChanged(Route(X))) /\ parse_location(Route(X)) = X) =>
                /\ active(router') = X
                /\ active(provided'.router) = X
      ]_vars

C1_Witness ==
    /\ handled = [call |-> "update", msg |-> RouteChanged(Route("AB"))]
    /\ history.index > 1
    /\ Location(history) = Route("AB")
    /\ should_render
    /\ props.default = "A"
    /\ active(provided.router) = "AB"

\* C2 as claimed: with a default D in the properties, an unmatched location
\* and no location-change event waiting, active() is Some(D).
C2_Original ==
    (alive /\ props.default # None /\ Unmatched /\ NoPendingRouteChanged)
        => active(provided.router) = props.default

\* C2: the same, in the states where the default in the properties is the
\* one that was there when the location was last parsed.
C2_DefaultSubstituted ==
    (alive /\ props.default # None /\ Unmatched /\ NoPendingRouteChanged
           /\ props.default = default_used)
        => /\ active(router) = props.default
           /\ active(provided.router) = props.default

C2_Witness ==
    /\ alive
    /\ handled.call = "update"
    /\ handled.msg.type = "RouteChanged"
    /\ Unmatched
    /\ NoPendingRouteChanged
    /\ props.default = "Slash"
    /\ default_used = "Slash"
    /\ active(provided.router) = "Slash"

\* C3 as claimed: with no default in the properties, an unmatched location
\* and no location-change event waiting, active() is None.
C3_Original ==
    (alive /\ props.default = None /\ Unmatched /\ NoPendingRouteChanged)
        => active(provided.router) = None

\* C3: the same, in the states where there was no default either when the
\* location was last parsed.
C3_NoneWithoutDefault ==
    (alive /\ props.default = None /\ Unmatched /\ NoPendingRouteChanged
           /\ default_used = None)
        => /\ active(router) = None
           /\ active(provided.router) = None

C3_Witness ==
    /\ alive
    /\ handled.call = "update"
    /\ handled.msg.type = "RouteChanged"
    /\ should_render
    /\ Unmatched
    /\ NoPendingRouteChanged
    /\ props.default = None
    /\ default_used = None
    /\ active(provided.router) = None

\* C4: handling RouteChanged(l), with t the parse of l or else the default:
\* if t equals the stored target, update returns false and the stored target
\* and the contexts stay as they are; otherwise t is stored and update
\* returns true.
C4_EqualityGated ==
    [][\A l \in Locations :
          Handles(RouteChanged(l)) =>
              LET p == parse_location(l)
                  t == IF p = None THEN props.default ELSE p
              IN  IF t = target
                  THEN /\ ~should_render'
                       /\ UNCHANGED <<target, scope, router, provided>>
                  ELSE /\ should_render'
                       /\ target' = t
      ]_vars

C4_Witness ==
    /\ handled.call = "update"
    /\ handled.msg.type = "RouteChanged"
    /\ ~should_render
    /\ target = "AB"
    /\ Location(history) = Route("Slash")

\* C5: a properties change builds a new ScopeContext and RouterContext, has
\* them rendered, and leaves the stored target and active() as they were.
C5_ChangedKeepsTarget ==
    [][Changed =>
          /\ target' = target
          /\ active(router') = active(router)
          /\ active(provided'.router) = active(provided.router)
          /\ scope' # scope
          /\ router'.scope = scope'
          /\ should_render'
          /\ provided' = view(scope', router')
      ]_vars

C5_Witness ==
    /\ handled.call = "changed"
    /\ props.default = "Slash"
    /\ default_used = "A"
    /\ Unmatched
    /\ target = "A"
    /\ active(provided.router) = "A"

\* C6 as claimed: when handling a RouteChanged changes the stored target,
\* the ScopeContext the descendants are given equals the one they had.
C6_ScopeContextKept ==
    [][\A l \in Locations :
          (Handles(RouteChanged(l)) /\ target' # target)
              => provided'.scope = provided.scope
      ]_vars

\* the path p is a slash followed by the segments, each verbatim, with a
\* slash between two segments
SlashAt(segs, i) ==
    LET RECURSIVE At(_)
        At(k) == IF k = 1 THEN 1 ELSE At(k - 1) + Len(segs[k - 1]) + 1
    IN  At(i)

IsPathOf(p, segs) ==
    IF segs = <<>>
    THEN p = <<"/">>
    ELSE /\ Len(p) = SlashAt(segs, Len(segs)) + Len(segs[Len(segs)])
         /\ \A i \in 1..Len(segs) :
               /\ p[SlashAt(segs, i)] = "/"
               /\ SubSeq(p, SlashAt(segs, i) + 1, SlashAt(segs, i) + Len(segs[i]))
                      = segs[i]

\* C7: handling ChangeTarget(X) makes the current location the path made of
\* a slash and render(X)'s segments, verbatim, joined by slashes; it starts
\* with a slash, and is "/" when render(X) is empty.
C7_PushedPathFormat ==
    [][\A X \in Targets :
          Handles(ChangeTarget(X)) =>
              /\ IsPathOf(Location(history'), render_path(X))
              /\ Head(Location(history')) = "/"
              /\ render_path(X) = <<>> => Location(history') = <<"/">>
      ]_vars

C7_Witness ==
    /\ handled = [call |-> "update", msg |-> ChangeTarget("Slash")]
    /\ Location(history) = <<"/", "a", "/", "b">>
    /\ msgs # <<>>
    /\ msgs[Len(msgs)] = RouteChanged(<<"/", "a", "/", "b">>)

\* C8: handling ChangeTarget(X) adds one history entry, returns false and
\* leaves the stored target and the contexts alone; the stored target changes
\* only in the handling of a RouteChanged.
C8_FireAndForget ==
    [][/\ \A X \in Targets :
             Handles(ChangeTarget(X)) =>
                 /\ history'.index = history.index + 1
                 /\ ~should_render'
                 /\ UNCHANGED <<target, scope, router, provided>>
       /\ target' # target =>
             \E l \in Locations : Handles(RouteChanged(l))
      ]_vars

C8_Witness ==
    /\ handled = [call |-> "update", msg |-> ChangeTarget("AB")]
    /\ ~should_render
    /\ target = "A"
    /\ active(provided.router) = "A"
    /\ msgs = <<RouteChanged(Route("AB"))>>

\* C9: is_same(t) holds exactly when the active target is some a with a = t,
\* for the contexts of the Router and every context that can be built; so it
\* is false for every t when active() is None.
C9_IsSame ==
    \A ctx \in RouterContexts \cup {router, provided.router} :
        \A t \in Targets :
            /\ is_same(ctx, t) <=> (\E a \in Targets : active(ctx) = a /\ a = t)
            /\ active(ctx) = None => ~is_same(ctx, t)

C9_Witness ==
    /\ alive
    /\ handled.call = "update"
    /\ handled.msg.type = "RouteChanged"
    /\ should_render
    /\ active(provided.router) = None
    /\ \A t \in Targets : ~is_same(provided.router, t)

\* C10: is_active(t) is is_same(t): true only of the active target itself,
\* not of a target whose path begins the active target's path.
C10_IsActiveIsSame ==
    \A ctx \in RouterContexts \cup {router, provided.router} :
        \A t \in Targets :
            /\ is_active(ctx, t) = is_same(ctx, t)
            /\ is_active(ctx, t) => active(ctx) = t

C10_Witness ==
    /\ alive
    /\ handled = [call |-> "update", msg |-> RouteChanged(Route("AB"))]
    /\ should_render
    /\ active(provided.router) = "AB"
    /\ IsPathPrefix("A", "AB")
    /\ ~is_active(provided.router, "A")
    /\ is_active(provided.router, "AB")

\* C11: right after create the stored target is the parse of the current
\* location when there is one and the default of the properties otherwise;
\* after a RouteChanged is handled it is the parse of that location when
\* there is one, whatever the default, and the default otherwise.
C11_ParseBeforeDefault ==
    /\ (alive /\ handled.call = "create" /\ msgs = <<>>) =>
          LET p == parse_path(path(Location(history)))
          IN  target = IF p # None THEN p ELSE props.default
    /\ (alive /\ handled.call = "update" /\ handled.msg.type = "RouteChanged") =>
          LET p == parse_path(path(handled.msg.location))
          IN  target = IF p # None THEN p ELSE default_used

C11_Witness ==
    /\ alive
    /\ handled.call = "create"
    /\ msgs = <<>>
    /\ props.default = "A"
    /\ Location(history) = Route("AB")
    /\ target = "AB"

\* no segment of X's path holds a slash
SlashFree(X) ==
    \A i \in 1..Len(render_path(X)) :
        \A k \in 1..Len(render_path(X)[i]) : render_path(X)[i][k] # "/"

\* C12 as claimed: the RouteChanged queued by the handling of ChangeTarget(X)
\* carries a location whose segments, as handed to the parser, are render(X).
C12_Original ==
    [][\A X \in Targets :
          Handles(ChangeTarget(X)) =>
              path(msgs'[Len(msgs')].location) = render_path(X)
      ]_vars

\* C12: the same for the targets whose path is not empty and has no slash
\* inside a segment.
C12_RoundTrip ==
    [][\A X \in Targets :
          (Handles(ChangeTarget(X)) /\ render_path(X) # <<>> /\ SlashFree(X)) =>
              /\ msgs'[Len(msgs')].type = "RouteChanged"
              /\ path(msgs'[Len(msgs')].location) = render_path(X)
      ]_vars

C12_Witness ==
    /\ handled = [call |-> "update", msg |-> RouteChanged(Route("AB"))]
    /\ history.index > 1
    /\ path(handled.msg.location) = << <<"a">>, <<"b">> >>
    /\ target = "AB"

\* the locations the Router has yet to parse, and the current one
SeenLocations ==
    {Location(history)}
        \cup {msgs[i].location : i \in {j \in 1..Len(msgs) : msgs[j].type = "RouteChanged"}}

\* C13: the segments handed to the parser are the location split at the
\* slashes without the empty segment before the leading slash: joined by
\* slashes behind a slash they give the location back, so no segment is
\* dropped and a trailing slash leaves a trailing empty segment.
C13_SplitSkipsLeadingOnly ==
    \A l \in SeenLocations :
        /\ Head(l) = "/"
        /\ <<"/">> \o Join(path(l), <<"/">>) = l
        /\ l = <<"/", "a", "/">> => path(l) = << <<"a">>, <<>> >>

C13_Witness ==
    /\ alive
    /\ handled = [call |-> "update", msg |-> RouteChanged(<<"/", "a", "/">>)]
    /\ path(handled.msg.location) = << <<"a">>, <<>> >>
    /\ props.default = None
    /\ target = None

\* C14: the listener is held exactly while the component is alive; while it
\* is, every change of the history puts one RouteChanged with the new
\* location at the end of the queue; once it is dropped nothing is queued
\* and nothing of the Router changes, whatever the history does.
C14_SubscriptionScoped ==
    [][/\ alive = listener
       /\ alive' = listener'
       /\ (alive /\ alive' /\ history' # history) =>
             \/ msgs' = Append(msgs, RouteChanged(Location(history')))
             \/ msgs' = Append(Tail(msgs), RouteChanged(Location(history')))
       /\ ~alive =>
             /\ msgs = <<>>
             /\ UNCHANGED <<props, listener, alive, target, scope, router, msgs,
                            provided, handled, should_render, default_used>>
      ]_vars

C14_Witness ==
    /\ ~alive
    /\ ~listener
    /\ handled.call = "destroy"
    /\ msgs = <<>>
    /\ history.index = MaxHistory
    /\ Location(history) = Route("AB")
    /\ target = "Root"
    /\ active(provided.router) = "Root"

\* C15: the RouterContext of the Router and the one its descendants were
\* given hold the stored target, and their scope is the ScopeContext of the
\* Router, which is the one given to the descendants.
C15_ContextsConsistent ==
    /\ router.active_target = target
    /\ router.scope = scope
    /\ provided.router = router
    /\ provided.scope = scope
    /\ provided.router.scope = provided.scope

C15_Witness ==
    /\ alive
    /\ handled.call = "update"
    /\ handled.msg.type = "RouteChanged"
    /\ should_render
    /\ target = "AB"
    /\ provided.router.active_target = "AB"
    /\ props.default = "A"

\* the last RouteChanged waiting, if there is one
LastRouteChanged ==
    LET I == {i \in 1..Len(msgs) : msgs[i].type = "RouteChanged"}
    IN  IF I = {} THEN None ELSE msgs[CHOOSE i \in I : \A j \in I : j <= i].location

\* C16: the RouteChanged messages wait in the order of the history changes:
\* the last one waiting carries the current location.  Once nothing waits,
\* the message handled last was the one of the last history change, the
\* stored target is the parse of the current location (or else the default
\* read then), and it is X when the current location is the route of a
\* target X that parses back to X.
C16_NavigationOrder ==
    alive =>
        /\ LastRouteChanged # None => LastRouteChanged = Location(history)
        /\ msgs = <<>> =>
              /\ handled.call = "update" =>
                    /\ handled.msg.type = "RouteChanged"
                    /\ handled.msg.location = Location(history)
              /\ LET p == parse_path(path(Location(history)))
                 IN  target = IF p # None THEN p ELSE default_used
              /\ \A X \in Targets :
                    (Location(history) = Route(X) /\ parse_path(path(Route(X))) = X)
                        => target = X

C16_Witness ==
    /\ alive
    /\ msgs = <<>>
    /\ history.index = 3
    /\ handled = [call |-> "update", msg |-> RouteChanged(Route("AB"))]
    /\ ~should_render
    /\ target = "AB"

\* C17 as claimed: handling ChangeTarget(X) adds one entry holding X's route
\* even when X is the stored target, and the RouteChanged handled next after
\* a request for the stored target changes nothing and returns false.
C17_Original ==
    [][\A X \in Targets :
          /\ Handles(ChangeTarget(X)) =>
                /\ history'.index = history.index + 1
                /\ Location(history') = Route(X)
          /\ (handled = [call |-> "update", msg |-> ChangeTarget(X)] /\ target = X
                /\ Update /\ Head(msgs).type = "RouteChanged") =>
                /\ ~should_render'
                /\ UNCHANGED <<target, scope, router, provided>>
      ]_vars

\* C17: the same, the second half for a target X whose route parses back to
\* X and when the RouteChanged handled next is the one of the request's push.
C17_NoDeduplication ==
    [][\A X \in Targets :
          /\ Handles(ChangeTarget(X)) =>
                /\ history'.index = history.index + 1
                /\ Location(history') = Route(X)
          /\ (handled = [call |-> "update", msg |-> ChangeTarget(X)] /\ target = X
                /\ parse_path(path(Route(X))) = X
                /\ Handles(RouteChanged(Route(X)))) =>
                /\ ~should_render'
                /\ UNCHANGED <<target, scope, router, provided>>
      ]_vars

C17_Witness ==
    /\ alive
    /\ handled = [call |-> "update", msg |-> ChangeTarget("A")]
    /\ target = "A"
    /\ history.index > 1
    /\ Location(history) = Route("A")
    /\ msgs = <<RouteChanged(Route("A"))>>

====
